---- MODULE Spec2Model ----
(***************************************************************************)
(* The sampling engine of SamplingExercise: generating_functions.py and    *)
(* helpers/probability_density_functions.py.                               *)
(*                                                                         *)
(* Numbers.  A Python argument is a tagged value [t, v]: t is its Python   *)
(* type ("int", "float" or "str") and v its numeric value in whole units   *)
(* (0 for a str).  Every float the code computes is a fixed-point integer  *)
(* in units of 1/Scale, every operation rounding to the nearest unit.      *)
(* IEEE overflow, infinities and NaN are outside this representation.      *)
(*                                                                         *)
(* Random source.  np.random.seed(42) makes the uniform stream a function  *)
(* of the seed.  The stream's values are not known to the model, so a      *)
(* value is chosen when it is first drawn and kept in `stream`; `cursor`   *)
(* is the number of values drawn since the seed was set.                   *)
(*                                                                         *)
(* Callers.  A run of the program reaches the three generators in the      *)
(* order of its entry points: triangular, Pareto, Gamma.  No caller        *)
(* catches an exception, so a call that raises ends the run.  The Gamma     *)
(* caller goes on to the summary statistics of the samples it holds.       *)
(***************************************************************************)
EXTENDS Integers, Sequences, FiniteSets

VARIABLES
    stream,   \* the values of the seeded uniform stream revealed so far
    cursor,   \* how many values this process has drawn from the stream
    pc,       \* the caller's position: which generator it calls next; an
              \* exception is not caught and ends the run ("done")
    last,     \* the last generator call: arguments, outcome, cursor before it
    run,      \* 1: the first run of the program, 2: the run after a restart
    log,      \* the calls of this run, in order
    prev,     \* the calls of the run before the restart
    summary   \* the summary statistics of the Gamma caller and their outcome

vars == <<stream, cursor, pc, last, run, log, prev, summary>>

(***************************** bounds **************************************)
Scale == 1000      \* fixed-point units per 1.0
UDen == 4          \* the uniform source returns k/UDen, k in 0..UDen-1
MaxDraws == 4      \* draws a run may make from the stream
MaxVal == 3        \* largest parameter value a caller passes
LnTerms == 8       \* terms of the series that stands for np.log
ExpTerms == 8      \* terms of the series that stands for np.exp

\* the largest n_samples a caller passes: a Gamma call, which draws twice
\* n_samples values, still fits in a run
MaxCount == MaxDraws \div 2

(************************** Python values **********************************)
PyInt(x) == [t |-> "int", v |-> x]
PyFloat(x) == [t |-> "float", v |-> x]
PyStr == [t |-> "str", v |-> 0]

\* isinstance(x, int)
IsInt(x) == x.t = "int"
\* isinstance(x, (int, float))
IsIntOrFloat(x) == x.t \in {"int", "float"}

One == Scale
\* the float value of a numeric argument
Num(x) == x.v * Scale

(************************ float arithmetic *********************************)
\* n / d rounded to the nearest integer (d # 0)
Round(n, d) ==
    LET num == IF d < 0 THEN -n ELSE n
        den == IF d < 0 THEN -d ELSE d
    IN  (2 * num + den) \div (2 * den)

FMul(x, y) == Round(x * y, Scale)
FDiv(x, y) == Round(x * Scale, y)

RECURSIVE SqrtSearch(_, _, _)
SqrtSearch(x, lo, hi) ==
    IF lo >= hi THEN lo
    ELSE LET mid == (lo + hi + 1) \div 2
         IN  IF mid * mid <= x THEN SqrtSearch(x, mid, hi)
             ELSE SqrtSearch(x, lo, mid - 1)

\* math.sqrt on a non-negative float (the largest unit whose square fits)
SqrtValue(x) == SqrtSearch(x * Scale, 0, x + Scale)

\* SqrtValue, computed once for the arguments the generators pass
SqrtMemo == [x \in 0..((MaxVal + 1) * (MaxVal + 1) * One) |-> SqrtValue(x)]

sqrt(x) == IF x \in DOMAIN SqrtMemo THEN SqrtMemo[x] ELSE SqrtValue(x)

RECURSIVE AtanhSum(_, _, _)
AtanhSum(pw, z2, j) ==
    IF j >= LnTerms THEN 0
    ELSE Round(pw, 2 * j + 1) + AtanhSum(FMul(pw, z2), z2, j + 1)

\* np.log on a float in (0, 1]: 2 * atanh((x - 1) / (x + 1))
LogValue(x) ==
    LET z == FDiv(x - One, x + One)
    IN  2 * AtanhSum(z, FMul(z, z), 0)

\* LogValue, computed once for the floats in (0, 1]
LogMemo == [x \in 1..One |-> LogValue(x)]

np_log(x) == IF x \in DOMAIN LogMemo THEN LogMemo[x] ELSE LogValue(x)

RECURSIVE ExpSum(_, _, _)
ExpSum(term, y, j) ==
    IF j > ExpTerms THEN term
    ELSE term + ExpSum(Round(FMul(term, y), j), y, j + 1)

RECURSIVE ExpPos(_)
ExpPos(y) ==
    IF y > One
    THEN LET h == ExpPos(Round(y, 2)) IN FMul(h, h)
    ELSE ExpSum(One, y, 1)

\* np.exp
ExpValue(x) == IF x >= 0 THEN ExpPos(x) ELSE FDiv(One, ExpPos(-x))

\* ExpValue, computed once for the exponents the generators pass
ExpMemo == [x \in (-4 * One)..(2 * One) |-> ExpValue(x)]

np_exp(x) == IF x \in DOMAIN ExpMemo THEN ExpMemo[x] ELSE ExpValue(x)

\* math.pow(x, y) for x in (0, 1]
pow(x, y) == np_exp(FMul(y, np_log(x)))

\* np.e
np_e == Round(27183 * Scale, 10000)

(*************************** random source *********************************)
\* the floats np.random.uniform(0, 1) can return: [0, 1)
Uniform == {(k * Scale) \div UDen : k \in 0..(UDen - 1)}

\* np.random.uniform(0, 1, k): the next k values of the stream
UniformDraws(k) ==
    {s \in [1..k -> Uniform] :
        \A i \in 1..k : cursor + i <= Len(stream) => s[i] = stream[cursor + i]}

\* the stream once `drawn` has been read from the cursor on
Revealed(drawn) ==
    IF cursor + Len(drawn) > Len(stream)
    THEN SubSeq(stream, 1, cursor) \o drawn
    ELSE stream

NoCall ==
    [fn |-> "none", args |-> <<>>, err |-> "none", msg |-> "",
     out |-> <<>>, before |-> 0]

\* raise err(message=msg) before any draw
Raise(fn, args, err, msg) ==
    /\ last' = [fn |-> fn, args |-> args, err |-> err, msg |-> msg,
                out |-> <<>>, before |-> cursor]
    /\ UNCHANGED <<stream, cursor>>

\* the call drew `drawn` and returned `out`
Return(fn, args, drawn, out) ==
    /\ cursor + Len(drawn) <= MaxDraws
    /\ cursor' = cursor + Len(drawn)
    /\ stream' = Revealed(drawn)
    /\ last' = [fn |-> fn, args |-> args, err |-> "none", msg |-> "",
                out |-> out, before |-> cursor]

\* the call drew `drawn` and then raised err, an exception with no message
RaiseAfterDraw(fn, args, drawn, err) ==
    /\ cursor + Len(drawn) <= MaxDraws
    /\ cursor' = cursor + Len(drawn)
    /\ stream' = Revealed(drawn)
    /\ last' = [fn |-> fn, args |-> args, err |-> err, msg |-> "",
                out |-> <<>>, before |-> cursor]

(**************************** triangular ***********************************)
MsgTriangularType == "a, b, and c must be of type int or float"
MsgTriangularOrder ==
    "a < c < b must be satisfied and n_samples must be greater than 0"

\* get_x_from_uniform with the sign of the upper branch's root wrong
get_x_from_uniform_plus(U, a, b, c, cdf_at_c) ==
    IF U < cdf_at_c
    THEN sqrt(FMul(FMul(U, Num(b) - Num(a)), Num(c) - Num(a))) + Num(a)
    ELSE Num(b) + sqrt(FMul(FMul(One - U, Num(b) - Num(a)), Num(b) - Num(c)))

get_x_from_uniform(U, a, b, c, cdf_at_c) ==
    IF U < cdf_at_c
    THEN sqrt(FMul(FMul(U, Num(b) - Num(a)), Num(c) - Num(a))) + Num(a)
    ELSE Num(b) - sqrt(FMul(FMul(One - U, Num(b) - Num(a)), Num(b) - Num(c)))

get_value_from_probability(samples, cdf_at_c, a, b, c) ==
    [i \in 1..Len(samples) |-> get_x_from_uniform(samples[i], a, b, c, cdf_at_c)]

triangular_types_ok(n_samples, a, b, c) ==
    ~(\/ ~IsIntOrFloat(a)
      \/ ~IsIntOrFloat(b)
      \/ ~IsIntOrFloat(c)
      \/ ~IsInt(n_samples))

\* the second check with `>=` for `>`: a count of 0 passes
triangular_constraints_zero_ok(n_samples, a, b, c) ==
    ~(~(a.v < c.v /\ c.v < b.v) \/ ~(n_samples.v >= 0))

triangular_constraints_ok(n_samples, a, b, c) ==
    ~(~(a.v < c.v /\ c.v < b.v) \/ ~(n_samples.v > 0))

\* generate_triangular with the draw moved above the second check
generate_triangular_draw_first(n_samples, a, b, c) ==
    LET args == <<n_samples, a, b, c>>
    IN  IF ~triangular_types_ok(n_samples, a, b, c)
        THEN Raise("triangular", args, "InvalidParametersError", MsgTriangularType)
        ELSE \E samples \in UniformDraws(n_samples.v) :
                IF ~triangular_constraints_ok(n_samples, a, b, c)
                THEN /\ RaiseAfterDraw("triangular", args, samples,
                                       "InvalidParametersError")
                ELSE LET cdf_value_at_c == FDiv(Num(c) - Num(a), Num(b) - Num(a))
                     IN  Return("triangular", args, samples,
                                get_value_from_probability(samples, cdf_value_at_c,
                                                           a, b, c))

generate_triangular(n_samples, a, b, c) ==
    LET args == <<n_samples, a, b, c>>
    IN  IF ~triangular_types_ok(n_samples, a, b, c)
        THEN Raise("triangular", args, "InvalidParametersError", MsgTriangularType)
        ELSE IF ~triangular_constraints_ok(n_samples, a, b, c)
        THEN Raise("triangular", args, "InvalidParametersError", MsgTriangularOrder)
        ELSE \E samples \in UniformDraws(n_samples.v) :
                LET cdf_value_at_c == FDiv(Num(c) - Num(a), Num(b) - Num(a))
                IN  Return("triangular", args, samples,
                           get_value_from_probability(samples, cdf_value_at_c, a, b, c))

(****************************** pareto *************************************)
MsgParetoType == "xm must be of type int or float and alpha must be of type int"
MsgCount == "n_samples must be greater than 0"

\* get_x_from_pareto with `*` for `/`
get_x_from_pareto_times(U, xm, alpha) ==
    IF alpha.v = 0
    THEN [err |-> "ZeroDivisionError", val |-> 0]
    ELSE [err |-> "none",
          val |-> FMul(Num(xm), pow(One - U, FDiv(One, Num(alpha))))]

\* xm / pow(1 - U, 1/alpha); 1/alpha raises ZeroDivisionError when alpha is 0
get_x_from_pareto(U, xm, alpha) ==
    IF alpha.v = 0
    THEN [err |-> "ZeroDivisionError", val |-> 0]
    ELSE [err |-> "none",
          val |-> FDiv(Num(xm), pow(One - U, FDiv(One, Num(alpha))))]

\* the list comprehension: the values, or the first exception raised
get_pareto_value_from_probability(samples, xm, alpha) ==
    LET xs == [i \in 1..Len(samples) |-> get_x_from_pareto(samples[i], xm, alpha)]
        bad == {i \in 1..Len(samples) : xs[i].err # "none"}
    IN  IF bad # {}
        THEN [err |-> xs[CHOOSE i \in bad : \A j \in bad : i <= j].err, out |-> <<>>]
        ELSE [err |-> "none", out |-> [i \in 1..Len(samples) |-> xs[i].val]]

pareto_types_ok(n_samples, xm, alpha) ==
    ~(\/ ~IsIntOrFloat(xm)
      \/ ~IsInt(alpha)
      \/ ~IsInt(n_samples))

pareto_count_ok(n_samples) == n_samples.v > 0

generate_pareto_distribution(n_samples, xm, alpha) ==
    LET args == <<n_samples, xm, alpha>>
    IN  IF ~pareto_types_ok(n_samples, xm, alpha)
        THEN Raise("pareto", args, "InvalidParametersError", MsgParetoType)
        ELSE IF ~pareto_count_ok(n_samples)
        THEN Raise("pareto", args, "InvalidParametersError", MsgCount)
        ELSE \E samples \in UniformDraws(n_samples.v) :
                LET r == get_pareto_value_from_probability(samples, xm, alpha)
                IN  IF r.err # "none"
                    THEN RaiseAfterDraw("pareto", args, samples, r.err)
                    ELSE Return("pareto", args, samples, r.out)

(******************************* gamma *************************************)
MsgGammaType == "n_samples must be of type int"

\* 0.75 * np.exp(-0.75 * x)
exponential_pdf(x) ==
    FMul(Round(75 * Scale, 100), np_exp(FMul(-Round(75 * Scale, 100), x)))

\* 2.25 * x * np.exp(-1.5 * x)
gamma_pdf(x) ==
    FMul(FMul(Round(225 * Scale, 100), x), np_exp(FMul(-Round(15 * Scale, 10), x)))

lambda_2 == Round(75 * Scale, 100)
M == FDiv(4 * One, np_e)

\* the inverse CDF with its minus sign lost
exponential_inverse_cdf_unsigned(U) == FDiv(np_log(One - U), lambda_2)

\* -np.log(1 - samples) / lambda_2, elementwise
exponential_inverse_cdf(U) == FDiv(-np_log(One - U), lambda_2)

\* the test of the loop with `<` for `<=`
accepted_strict(V, sample) ==
    V < FDiv(gamma_pdf(sample), FMul(M, exponential_pdf(sample)))

\* the test of the loop: np.random.uniform(0, 1) <= gamma_pdf / (M * exponential_pdf)
accepted(V, sample) ==
    V <= FDiv(gamma_pdf(sample), FMul(M, exponential_pdf(sample)))

\* the for loop from its i-th iteration on: the i-th scalar draw tests the
\* i-th proposal
RECURSIVE acceptance_loop(_, _, _, _)
acceptance_loop(exponential_samples, vs, i, accepted_samples) ==
    IF i > Len(exponential_samples) THEN accepted_samples
    ELSE acceptance_loop(exponential_samples, vs, i + 1,
            IF accepted(vs[i], exponential_samples[i])
            THEN Append(accepted_samples, exponential_samples[i])
            ELSE accepted_samples)

gamma_count_ok(n_samples) == n_samples.v > 0

\* generate_gamma_distribution_samples with the acceptance value drawn once,
\* before the loop, and used for every proposal
generate_gamma_one_acceptance_draw(n_samples) ==
    LET args == <<n_samples>>
        n == n_samples.v
    IN  IF ~IsInt(n_samples)
        THEN Raise("gamma", args, "InvalidParametersError", MsgGammaType)
        ELSE IF ~gamma_count_ok(n_samples)
        THEN Raise("gamma", args, "InvalidParametersError", MsgCount)
        ELSE \E drawn \in UniformDraws(n + 1) :
                LET samples == SubSeq(drawn, 1, n)
                    vs == [i \in 1..n |-> drawn[n + 1]]
                    exponential_samples ==
                        [i \in 1..n |-> exponential_inverse_cdf(samples[i])]
                IN  Return("gamma", args, drawn,
                           acceptance_loop(exponential_samples, vs, 1, <<>>))

generate_gamma_distribution_samples(n_samples) ==
    LET args == <<n_samples>>
        n == n_samples.v
    IN  IF ~IsInt(n_samples)
        THEN Raise("gamma", args, "InvalidParametersError", MsgGammaType)
        ELSE IF ~gamma_count_ok(n_samples)
        THEN Raise("gamma", args, "InvalidParametersError", MsgCount)
        ELSE \E drawn \in UniformDraws(2 * n) :
                LET samples == SubSeq(drawn, 1, n)
                    vs == SubSeq(drawn, n + 1, 2 * n)
                    exponential_samples ==
                        [i \in 1..n |-> exponential_inverse_cdf(samples[i])]
                IN  Return("gamma", args, drawn,
                           acceptance_loop(exponential_samples, vs, 1, <<>>))

(************************ summary statistics *******************************)
RECURSIVE builtin_sum(_, _)
builtin_sum(xs, i) ==
    IF i > Len(xs) THEN 0 ELSE xs[i] + builtin_sum(xs, i + 1)

\* max(accepted_samples), the elements from the i-th on, best being the
\* largest before them
RECURSIVE builtin_max(_, _, _)
builtin_max(xs, i, best) ==
    IF i > Len(xs) THEN best
    ELSE builtin_max(xs, i + 1, IF xs[i] > best THEN xs[i] ELSE best)

np_mean(xs) == Round(builtin_sum(xs, 1), Len(xs))

np_var(xs) ==
    LET mean == np_mean(xs)
        squares == [i \in 1..Len(xs) |-> FMul(xs[i] - mean, xs[i] - mean)]
    IN  Round(builtin_sum(squares, 1), Len(xs))

\* no statistics were asked for
NoSummary ==
    [called |-> FALSE, generated |-> FALSE, samples |-> <<>>,
     n_samples |-> PyInt(0), err |-> "none", computed |-> {},
     max |-> 0, mean |-> 0, var |-> 0, rate |-> 0]

\* The body of plot_gamma_distribution_and_print_summary_statistics after
\* accepted_samples is bound.  max() of an empty sequence raises ValueError
\* before the mean and the variance are computed; the acceptance rate
\* divides by n_samples after them.
print_summary_statistics(accepted_samples, n_samples, generated) ==
    LET entered == [NoSummary EXCEPT !.called = TRUE,
                                     !.generated = generated,
                                     !.samples = accepted_samples,
                                     !.n_samples = n_samples]
        measured == [entered EXCEPT
                        !.computed = {"max", "mean", "var"},
                        !.max = builtin_max(accepted_samples, 2,
                                            accepted_samples[1]),
                        !.mean = np_mean(accepted_samples),
                        !.var = np_var(accepted_samples)]
    IN  IF accepted_samples = <<>>
        THEN [entered EXCEPT !.err = "ValueError"]
        ELSE IF n_samples.v = 0
        THEN [measured EXCEPT !.err = "ZeroDivisionError"]
        ELSE [measured EXCEPT
                 !.computed = @ \cup {"rate"},
                 !.rate = FDiv(Len(accepted_samples) * One, Num(n_samples))]

(***************************** callers *************************************)
\* n_samples: negative, zero and positive ints, and a float
Counts == {PyInt(n) : n \in (-1)..MaxCount} \cup {PyFloat(MaxCount)}
\* a, b, c: ints, a float between them, and a string
Values == {PyInt(x) : x \in 0..MaxVal} \cup {PyFloat(MaxVal - 1), PyStr}
\* xm: zero and positive ints, a float, and a string
Scales == {PyInt(x) : x \in 0..(MaxVal - 1)} \cup {PyFloat(MaxVal), PyStr}
\* alpha: negative, zero and positive ints, and a float
Shapes == {PyInt(x) : x \in (-1)..(MaxVal - 1)} \cup {PyFloat(MaxVal - 1)}
\* generated_samples a caller brings: none, one, and two in rising order
GivenSamples == {<<>>, <<One>>, <<One \div 2, 2 * One>>}
\* n_samples that comes with them: zero and a positive count
GivenCounts == {PyInt(0), PyInt(MaxCount)}

Init ==
    /\ stream = <<>>
    /\ cursor = 0
    /\ pc = "triangular"
    /\ last = NoCall
    /\ run = 1
    /\ log = <<>>
    /\ prev = <<>>
    /\ summary = NoSummary

\* A caller either asks the generator for its samples (generated_samples is
\* None) or brings samples of its own and makes no call.
Triangular ==
    /\ pc = "triangular"
    /\ \/ /\ \E n \in Counts, a \in Values, b \in Values, c \in Values :
                generate_triangular(n, a, b, c)
          /\ pc' = IF last'.err = "none" THEN "pareto" ELSE "done"
       \/ /\ pc' = "pareto"
          /\ UNCHANGED <<stream, cursor, last>>
    /\ UNCHANGED <<run, log, prev, summary>>

Pareto ==
    /\ pc = "pareto"
    /\ \/ /\ \E n \in Counts, xm \in Scales, alpha \in Shapes :
                generate_pareto_distribution(n, xm, alpha)
          /\ pc' = IF last'.err = "none" THEN "gamma" ELSE "done"
       \/ /\ pc' = "gamma"
          /\ UNCHANGED <<stream, cursor, last>>
    /\ UNCHANGED <<run, log, prev, summary>>

\* plot_gamma_distribution_and_print_summary_statistics: the samples are the
\* generator's or the caller's own; an exception of the generator leaves the
\* function before the statistics, which are computed in every other case.
Gamma ==
    /\ pc = "gamma"
    /\ \/ /\ \E n \in Counts :
                /\ generate_gamma_distribution_samples(n)
                /\ summary' = IF last'.err = "none"
                              THEN print_summary_statistics(last'.out, n, TRUE)
                              ELSE summary
          /\ pc' = "done"
       \/ /\ \E xs \in GivenSamples, n \in GivenCounts :
                summary' = print_summary_statistics(xs, n, FALSE)
          /\ pc' = "done"
          /\ UNCHANGED <<stream, cursor, last>>
    /\ UNCHANGED <<run, log, prev>>

Next == Triangular \/ Pareto \/ Gamma

Spec == Init /\ [][Next]_vars

(************************ two runs of the program **************************)
\* no seed is set at import: each process starts an unknown, fresh stream
np_random_unseeded(s) == <<>>

\* np.random.seed(42) at import: the same seed selects the same stream, so
\* the process after a restart reads the values the first one read
np_random_seed(s) == s

\* the demonstration parameters of the entry point
DemoTriangular == <<PyInt(1), PyInt(7), PyInt(2)>>
DemoPareto == <<PyInt(3), PyInt(2)>>
\* n_samples of a run: a count that is rejected and one that is accepted
ReproCounts == {PyInt(0), PyInt(1)}

\* the second run issues the calls of the first, with the same arguments
Replays(args) ==
    run = 2 => Len(log) < Len(prev) /\ args = prev[Len(log) + 1].args

ReproTriangular ==
    /\ pc = "triangular"
    /\ \E n \in ReproCounts :
          /\ Replays(<<n>> \o DemoTriangular)
          /\ generate_triangular(n, DemoTriangular[1], DemoTriangular[2],
                                 DemoTriangular[3])
    /\ pc' = IF last'.err = "none" THEN "pareto" ELSE "done"
    /\ log' = Append(log, last')
    /\ UNCHANGED <<run, prev, summary>>

ReproPareto ==
    /\ pc = "pareto"
    /\ \E n \in ReproCounts :
          /\ Replays(<<n>> \o DemoPareto)
          /\ generate_pareto_distribution(n, DemoPareto[1], DemoPareto[2])
    /\ pc' = IF last'.err = "none" THEN "gamma" ELSE "done"
    /\ log' = Append(log, last')
    /\ UNCHANGED <<run, prev, summary>>

ReproGamma ==
    /\ pc = "gamma"
    /\ \E n \in ReproCounts :
          /\ Replays(<<n>>)
          /\ generate_gamma_distribution_samples(n)
    /\ pc' = "done"
    /\ log' = Append(log, last')
    /\ UNCHANGED <<run, prev, summary>>

\* the program is started again: a new process imports the module, which
\* sets the seed before any draw
Restart ==
    /\ pc = "done"
    /\ run = 1
    /\ run' = 2
    /\ prev' = log
    /\ log' = <<>>
    /\ stream' = np_random_seed(stream)
    /\ cursor' = 0
    /\ pc' = "triangular"
    /\ last' = NoCall
    /\ summary' = NoSummary

ReproNext == ReproTriangular \/ ReproPareto \/ ReproGamma \/ Restart

ReproSpec == Init /\ [][ReproNext]_vars
(******************************* claims ************************************)
IPE == "InvalidParametersError"
Arg(i) == last.args[i]
\* the i-th uniform value the last call drew
Drawn(i) == stream[last.before + i]

PositiveInt(n) == IsInt(n) /\ n.v > 0

\* the last call was generate_triangular with arguments its contract accepts
TriangularValid ==
    /\ last.fn = "triangular"
    /\ IsIntOrFloat(Arg(2)) /\ IsIntOrFloat(Arg(3)) /\ IsIntOrFloat(Arg(4))
    /\ Arg(2).v < Arg(4).v /\ Arg(4).v < Arg(3).v
    /\ PositiveInt(Arg(1))

\* C1: for numeric a < c < b and an integer n > 0, generate_triangular
\* returns exactly n values, the i-th computed from the i-th uniform value
\* drawn, each within [a, b].
C1_TriangularRange ==
    TriangularValid =>
        /\ last.err = "none"
        /\ Len(last.out) = Arg(1).v
        /\ \A i \in 1..Len(last.out) :
              /\ last.out[i] =
                    get_x_from_uniform(Drawn(i), Arg(2), Arg(3), Arg(4),
                        FDiv(Num(Arg(4)) - Num(Arg(2)), Num(Arg(3)) - Num(Arg(2))))
              /\ Num(Arg(2)) <= last.out[i]
              /\ last.out[i] <= Num(Arg(3))

\* a valid call returned two values, one below the mode and one above it
C1_Witness ==
    /\ TriangularValid
    /\ last.err = "none"
    /\ Len(last.out) = 2
    /\ last.out[1] < Num(Arg(4))
    /\ last.out[2] > Num(Arg(4))

\* the last call was generate_pareto_distribution with xm > 0, an integer
\* alpha > 0 and an integer n > 0
ParetoValid ==
    /\ last.fn = "pareto"
    /\ IsIntOrFloat(Arg(2)) /\ Arg(2).v > 0
    /\ IsInt(Arg(3)) /\ Arg(3).v > 0
    /\ PositiveInt(Arg(1))

\* C2: for xm > 0, alpha > 0 accepted by validation and an integer n > 0,
\* generate_pareto_distribution returns exactly n values, each >= xm.
C2_ParetoLowerBound ==
    ParetoValid =>
        /\ last.err = "none"
        /\ Len(last.out) = Arg(1).v
        /\ \A i \in 1..Len(last.out) : last.out[i] >= Num(Arg(2))

\* a valid call returned two values, one at xm and one above it
C2_Witness ==
    /\ ParetoValid
    /\ last.err = "none"
    /\ Len(last.out) = 2
    /\ last.out[1] = Num(Arg(2))
    /\ last.out[2] > Num(Arg(2))

\* C3: for an integer n > 0, generate_gamma_distribution_samples returns
\* between 0 and n values, each >= 0; every exponential proposal it tests
\* is >= 0.
C3_GammaLengthAndSign ==
    (last.fn = "gamma" /\ PositiveInt(Arg(1))) =>
        /\ last.err = "none"
        /\ Len(last.out) >= 0
        /\ Len(last.out) <= Arg(1).v
        /\ \A i \in 1..Len(last.out) : last.out[i] >= 0
        /\ \A i \in 1..Arg(1).v : exponential_inverse_cdf(Drawn(i)) >= 0

\* two proposals were tested: one was accepted, a positive value, and one
\* was rejected
C3_Witness ==
    /\ last.fn = "gamma"
    /\ last.err = "none"
    /\ Arg(1).v = 2
    /\ Len(last.out) = 1
    /\ last.out[1] > 0

\* C4: invalid inputs are rejected with InvalidParametersError:
\* generate_triangular when a, b or c is not int or float, a < c < b does not
\* hold or n is not a positive integer; generate_pareto_distribution when n
\* is not a positive integer, xm is not int or float or alpha is not an int;
\* generate_gamma_distribution_samples when n is not a positive integer.
C4_InvalidInputsRejected ==
    /\ (last.fn = "triangular" /\ ~TriangularValid) => last.err = IPE
    /\ (/\ last.fn = "pareto"
        /\ \/ ~PositiveInt(Arg(1))
           \/ ~IsIntOrFloat(Arg(2))
           \/ ~IsInt(Arg(3))) => last.err = IPE
    /\ (last.fn = "gamma" /\ ~PositiveInt(Arg(1))) => last.err = IPE

\* generate_triangular rejected numeric bounds with a > b and a valid count
C4_Witness ==
    /\ last.fn = "triangular"
    /\ PositiveInt(Arg(1))
    /\ IsInt(Arg(2)) /\ IsInt(Arg(3)) /\ IsInt(Arg(4))
    /\ Arg(2).v > Arg(3).v
    /\ last.err = IPE

\* C5: a call that fails with InvalidParametersError leaves the cursor of
\* the shared uniform stream where it was: no value was drawn.
C5_FailureDrawsNothing ==
    last.err = IPE => cursor = last.before

\* a call failed after earlier calls had advanced the cursor
C5_Witness ==
    /\ last.err = IPE
    /\ last.before > 0
    /\ cursor = last.before
C7_SingleErrorKind ==
    last.err \in {"none", IPE}

\* what a message names: the constraints its text states
NamedConstraints(msg) ==
    IF msg = MsgTriangularType THEN {"type of a", "type of b", "type of c"}
    ELSE IF msg = MsgTriangularOrder THEN {"a < c < b", "n_samples > 0"}
    ELSE IF msg = MsgParetoType THEN {"type of xm", "type of alpha"}
    ELSE IF msg = MsgCount THEN {"n_samples > 0"}
    ELSE IF msg = MsgGammaType THEN {"type of n_samples"}
    ELSE {}

\* {x} when c holds, else the empty set
Only(c, x) == IF c THEN {x} ELSE {}

\* the constraints the last call's arguments violate; an ordering or a count
\* is violated only by arguments of the right type
ViolatedConstraints ==
    LET count == Only(~IsInt(Arg(1)), "type of n_samples")
                 \cup Only(IsInt(Arg(1)) /\ Arg(1).v <= 0, "n_samples > 0")
    IN  IF last.fn = "triangular"
        THEN count
             \cup Only(~IsIntOrFloat(Arg(2)), "type of a")
             \cup Only(~IsIntOrFloat(Arg(3)), "type of b")
             \cup Only(~IsIntOrFloat(Arg(4)), "type of c")
             \cup Only(/\ IsIntOrFloat(Arg(2)) /\ IsIntOrFloat(Arg(3))
                       /\ IsIntOrFloat(Arg(4))
                       /\ ~(Arg(2).v < Arg(4).v /\ Arg(4).v < Arg(3).v),
                       "a < c < b")
        ELSE IF last.fn = "pareto"
        THEN count
             \cup Only(~IsIntOrFloat(Arg(2)), "type of xm")
             \cup Only(~IsInt(Arg(3)), "type of alpha")
        ELSE IF last.fn = "gamma" THEN count
        ELSE {}

\* C8: the message of every InvalidParametersError names a constraint the
\* arguments violate: a wrongly typed parameter (a non-integer n_samples
\* included) as the type of that parameter, a < c < b as the ordering, a
\* non-positive n_samples as the count.
C8_MessageNamesViolation ==
    last.err = IPE => NamedConstraints(last.msg) \cap ViolatedConstraints # {}

\* the proposals of the last Gamma call and the values that tested them
GammaProposal(i) == exponential_inverse_cdf(Drawn(i))
GammaTest(i) == Drawn(Arg(1).v + i)
\* the proposals the rule of the specification accepts
GammaAccepted ==
    {i \in 1..Arg(1).v :
        GammaTest(i) <= FDiv(gamma_pdf(GammaProposal(i)),
                             FMul(M, exponential_pdf(GammaProposal(i))))}

\* C9: the output of generate_gamma_distribution_samples is the subsequence
\* of the proposals y_i with V_i <= gamma_pdf(y_i) / (M * exponential_pdf(y_i)),
\* in proposal order: a rejected proposal is dropped and not replaced, and
\* nothing else is in the output.
C9_GammaOutputIsAcceptedSubsequence ==
    (last.fn = "gamma" /\ last.err = "none") =>
        /\ Len(last.out) = Cardinality(GammaAccepted)
        /\ \A i \in GammaAccepted :
              last.out[Cardinality({k \in GammaAccepted : k <= i})] =
                  GammaProposal(i)

\* of two proposals the first was rejected and the second accepted, the
\* second on the boundary of the test (V equal to the ratio)
C9_Witness ==
    /\ last.fn = "gamma"
    /\ last.err = "none"
    /\ Arg(1).v = 2
    /\ GammaAccepted = {2}
    /\ last.out = <<GammaProposal(2)>>
    /\ GammaTest(2) = FDiv(gamma_pdf(GammaProposal(2)),
                           FMul(M, exponential_pdf(GammaProposal(2))))

\* C10: a call that returns advances the stream by a number of draws fixed
\* by n: n for generate_triangular and generate_pareto_distribution, 2n for
\* generate_gamma_distribution_samples whatever it accepts, the n proposal
\* draws first and then one acceptance draw per proposal, in proposal order.
C10_DrawsFixedByCount ==
    (last.fn # "none" /\ last.err = "none") =>
        /\ last.fn \in {"triangular", "pareto"} =>
              cursor = last.before + Arg(1).v
        /\ last.fn = "gamma" =>
              /\ cursor = last.before + 2 * Arg(1).v
              /\ \A j \in 1..Len(last.out) :
                    \E i \in GammaAccepted : last.out[j] = GammaProposal(i)

\* a Gamma call with two proposals accepted none of them and drew four values
C10_Witness ==
    /\ last.fn = "gamma"
    /\ last.err = "none"
    /\ Arg(1).v = 2
    /\ last.out = <<>>
    /\ cursor = last.before + 4

\* C11: when the Gamma generator accepted no sample, the caller that prints
\* the summary statistics handles the empty sequence: its statistics step
\* does not fail, and it computes no max, mean or variance of the empty
\* sequence.
C11_EmptySamplesHandled ==
    (summary.called /\ summary.generated /\ summary.samples = <<>>)
        => /\ summary.err = "none"
           /\ summary.computed \cap {"max", "mean", "var"} = {}
====
